---- MODULE Spec2Model ----
(***************************************************************************)
(* A model of the view / vector / byte-buffer core of sain:                *)
(*   sain/collections/slice.py  Slice, SliceMut and their iterators        *)
(*   sain/collections/vec.py    Vec                                        *)
(*   sain/collections/buf.py    Bytes, BytesMut                            *)
(* Python lists and arrays are objects on a heap; a Vec, a Slice or a      *)
(* Bytes holds references (heap indices) to them, so that aliasing, moves  *)
(* and copies are distinguishable.                                         *)
(***************************************************************************)
EXTENDS Integers, Sequences, FiniteSets, TLC

\* ---------------------------------------------------------------- bounds
MaxVal == 2
MaxCap == 4
MaxLen == 3
MaxArg == MaxLen + 1
MaxObjs == 3
MaxBuf == 2

Val == 1..MaxVal

\* ------------------------------------------------------ Python primitives
RECURSIVE SeqsUpTo(_)
SeqsUpTo(n) ==
    IF n = 0 THEN {<<>>}
    ELSE LET S == SeqsUpTo(n - 1)
         IN  S \cup {Append(s, x) : s \in {t \in S : Len(t) = n - 1}, x \in Val}

\* A missing slice bound (`s[a:]`, `s[:b]`).
NoIdx == 0 - 1000

\* PySlice_AdjustIndices for step 1: negative bounds count from the end,
\* then both are clamped into 0..n.
AdjustIndex(i, n) ==
    LET j == IF i < 0 THEN i + n ELSE i
    IN  IF j < 0 THEN 0 ELSE IF j > n THEN n ELSE j

\* s[a:b] of a list: a new list holding the selected elements.
PySlice(s, a, b) ==
    LET n  == Len(s)
        lo == IF a = NoIdx THEN 0 ELSE AdjustIndex(a, n)
        hi == IF b = NoIdx THEN n ELSE AdjustIndex(b, n)
    IN  IF hi <= lo THEN <<>> ELSE SubSeq(s, lo + 1, hi)

\* del s[a:b]
PyDelSlice(s, a, b) ==
    LET n  == Len(s)
        lo == IF a = NoIdx THEN 0 ELSE AdjustIndex(a, n)
        hi == IF b = NoIdx THEN n ELSE AdjustIndex(b, n)
    IN  IF hi <= lo THEN s ELSE SubSeq(s, 1, lo) \o SubSeq(s, hi + 1, n)

\* s[i] for an integer i: the 1-based position, or 0 when Python raises
\* IndexError.
PyIndex(s, i) ==
    LET j == IF i < 0 THEN i + Len(s) ELSE i
    IN  IF j >= 0 /\ j < Len(s) THEN j + 1 ELSE 0

\* del s[i] / s.pop(i) at a valid 1-based position p.
RemoveAt(s, p) == SubSeq(s, 1, p - 1) \o SubSeq(s, p + 1, Len(s))

\* Unary predicates handed to pop_if / retain / split_once: the set of
\* values on which the callable returns True.
Preds == SUBSET Val
\* Binary predicates handed to dedup_by / chunk_by.
Buckets == {"eq", "lt", "always", "never"}
Bucket(name, a, b) ==
    CASE name = "eq"     -> a = b
      [] name = "lt"     -> a < b
      [] name = "always" -> TRUE
      [] OTHER           -> FALSE

\* ------------------------------------------------------------------ state
VARIABLES
    \* -- Vec over a list
    lists,   \* heap of Python lists; lists[1] is the storage the Vec was
             \* built on, lists[2] a slot no object refers to
    vec,     \* the Vec: _ptr, _buf (0 = attribute deleted), _capacity
    ext,     \* the list the caller holds a direct reference to (0 = none)
    ret,     \* the last call: name, argument, outcome, result, and the
             \* contents of the Vec's storage when the call was made
    \* -- Bytes / BytesMut over arrays
    arrs,    \* heap of array.array('B') objects
    objs,    \* the Bytes / BytesMut objects created so far: class and _buf
             \* (0 = attribute deleted)
    moved,   \* the objects consumed by to_mut / freeze / leak
    bret,    \* the last call on a byte buffer
    \* -- Slice over an immutable sequence, and the iterator made from it
    sv,      \* the sequence the Slice points to
    iter,    \* the iterator being driven, if any
    yielded, \* the items it has returned so far
    sret     \* the last call on the Slice or the iterator

vecVars == <<lists, vec, ext, ret>>
bufVars == <<arrs, objs, moved, bret>>
sliceVars == <<sv, iter, yielded, sret>>
vars == <<lists, vec, ext, ret, arrs, objs, moved, bret, sv, iter, yielded, sret>>
nonVec == <<arrs, objs, moved, bret, sv, iter, yielded, sret>>
nonBuf == <<lists, vec, ext, ret, sv, iter, yielded, sret>>
nonSlice == <<lists, vec, ext, ret, arrs, objs, moved, bret>>

NoRef == 0
NoCap == <<>>

HasCap(v) == v.cap # NoCap
Cap(v) == v.cap[1]

\* What the Vec shows to readers: Slice methods go through _buf.
View == lists[vec.buf]

Call(op, arg, kind, val) ==
    [op |-> op, arg |-> arg, kind |-> kind, val |-> val, pre |-> View]

NoCall == [op |-> "new", arg |-> <<>>, kind |-> "None", val |-> <<>>,
           pre |-> <<>>]

\* The outcome of a method body: how it returned, what it returned, the heap
\* it left behind and the attributes of self (no method of Vec rebinds them).
Out(kind, val, ls) == [kind |-> kind, val |-> val, lists |-> ls, vec |-> vec]
Raise(err) == Out(err, <<>>, lists)

\* Vec.__init__ given a list: both _ptr and _buf point to that list.
VecInit(id) == [ptr |-> id, buf |-> id, cap |-> NoCap]

\* Vec.with_capacity(capacity)
with_capacity(id, capacity) == [VecInit(id) EXCEPT !.cap = <<capacity>>]

\* Calls that make a list longer are explored while the list is shorter than
\* MaxLen, or while a bounded Vec is still within its ceiling.
MayGrow == Len(lists[vec.buf]) < MaxLen
             \/ (HasCap(vec) /\ Len(lists[vec.buf]) <= Cap(vec))

\* `self.len() == self._capacity`; an int never equals None.
AtCapacity_off(v, len) == HasCap(v) /\ len > Cap(v)
AtCapacity(v, len) == HasCap(v) /\ len = Cap(v)

\* Vec.push_within_capacity(x)
push_within_capacity(x) ==
    IF AtCapacity(vec, Len(View)) THEN Out("Err", <<x>>, lists)
    ELSE IF vec.ptr = NoRef THEN Raise("AttributeError")
    ELSE Out("Ok", <<>>, [lists EXCEPT ![vec.ptr] = Append(@, x)])

PushWithinCapacity ==
    \E x \in Val :
        LET r == push_within_capacity(x) IN
        /\ MayGrow
        /\ lists' = r.lists
        /\ ret' = Call("push_within_capacity", <<x>>, r.kind, r.val)
        /\ vec' = r.vec
        /\ UNCHANGED <<ext, nonVec>>

push_unbounded(item) ==
    IF vec.ptr = NoRef THEN Raise("AttributeError")
    ELSE Out("None", <<>>, [lists EXCEPT ![vec.ptr] = Append(@, item)])

\* Vec.push(item): a bounded Vec delegates to push_within_capacity and
\* returns None whatever that call returned.
push(item) ==
    IF HasCap(vec)
    THEN LET r == push_within_capacity(item) IN
         IF r.kind \in {"Ok", "Err"} THEN Out("None", <<>>, r.lists) ELSE r
    ELSE IF vec.ptr = NoRef THEN Raise("AttributeError")
    ELSE Out("None", <<>>, [lists EXCEPT ![vec.ptr] = Append(@, item)])

Push ==
    \E x \in Val :
        LET r == push(x) IN
        /\ MayGrow
        /\ lists' = r.lists
        /\ ret' = Call("push", <<x>>, r.kind, r.val)
        /\ vec' = r.vec
        /\ UNCHANGED <<ext, nonVec>>

\* Vec.append(value)
append(value) ==
    IF vec.ptr = NoRef THEN Raise("AttributeError")
    ELSE Out("None", <<>>, [lists EXCEPT ![vec.ptr] = Append(@, value)])

VecAppend ==
    \E x \in Val :
        LET r == append(x) IN
        /\ Len(View) < MaxLen
        /\ lists' = r.lists
        /\ ret' = Call("append", <<x>>, r.kind, r.val)
        /\ vec' = r.vec
        /\ UNCHANGED <<ext, nonVec>>

\* Vec.extend(iterable)
extend(iterable) ==
    IF vec.ptr = NoRef THEN Raise("AttributeError")
    ELSE Out("None", <<>>, [lists EXCEPT ![vec.ptr] = @ \o iterable])

Extend ==
    \E it \in SeqsUpTo(2) :
        LET r == extend(it) IN
        /\ Len(View) + Len(it) <= MaxLen
        /\ lists' = r.lists
        /\ ret' = Call("extend", it, r.kind, r.val)
        /\ vec' = r.vec
        /\ UNCHANGED <<ext, nonVec>>

\* Vec.pop(index)
pop(index) ==
    IF vec.ptr = NoRef THEN Raise("AttributeError")
    ELSE IF lists[vec.ptr] = <<>> THEN Out("Nothing", <<>>, lists)
    ELSE LET p == PyIndex(lists[vec.ptr], index) IN
         IF p = 0 THEN Raise("IndexError")
         ELSE Out("Some", <<lists[vec.ptr][p]>>,
                  [lists EXCEPT ![vec.ptr] = RemoveAt(@, p)])

Pop ==
    \E index \in {0 - 1, 0, MaxArg} :
        LET r == pop(index) IN
        /\ lists' = r.lists
        /\ ret' = Call("pop", <<index>>, r.kind, r.val)
        /\ vec' = r.vec
        /\ UNCHANGED <<ext, nonVec>>

\* Vec.pop_if(pred): pred is applied to self[-1], read through _buf.
pop_if(pred) ==
    IF vec.ptr = NoRef THEN Raise("AttributeError")
    ELSE IF lists[vec.ptr] = <<>> THEN Out("Nothing", <<>>, lists)
    ELSE LET p == PyIndex(View, 0 - 1) IN
         IF p = 0 THEN Raise("IndexError")
         ELSE IF View[p] \in pred THEN pop(0 - 1)
         ELSE Out("Nothing", <<>>, lists)

PopIf ==
    \E pred \in Preds :
        LET r == pop_if(pred) IN
        /\ lists' = r.lists
        /\ ret' = Call("pop_if", <<Cardinality(pred)>>, r.kind, r.val)
        /\ vec' = r.vec
        /\ UNCHANGED <<ext, nonVec>>

truncate_rebind(size) ==
    IF vec.ptr = NoRef THEN Raise("AttributeError")
    ELSE [Out("None", <<>>,
              [lists EXCEPT ![2] = PySlice(lists[vec.ptr], NoIdx, size)])
          EXCEPT !.vec = [vec EXCEPT !.ptr = 2, !.buf = 2]]

\* Vec.truncate(size): del self._ptr[size:]
truncate(size) ==
    IF vec.ptr = NoRef THEN Raise("AttributeError")
    ELSE Out("None", <<>>,
             [lists EXCEPT ![vec.ptr] = PyDelSlice(@, size, NoIdx)])

Truncate ==
    \E size \in 0..MaxArg :
        LET r == truncate(size) IN
        /\ lists' = r.lists
        /\ ret' = Call("truncate", <<size>>, r.kind, r.val)
        /\ vec' = r.vec
        /\ UNCHANGED <<ext, nonVec>>

\* The loop of Vec.retain: delete at idx or step over it.
RECURSIVE RetainLoop(_, _, _)
RetainLoop(s, idx, f) ==
    IF idx < Len(s)
    THEN IF s[idx + 1] \notin f
         THEN RetainLoop(RemoveAt(s, idx + 1), idx, f)
         ELSE RetainLoop(s, idx + 1, f)
    ELSE s

\* Vec.retain(f)
retain(f) ==
    IF vec.ptr = NoRef THEN Raise("AttributeError")
    ELSE Out("None", <<>>, [lists EXCEPT ![vec.ptr] = RetainLoop(@, 0, f)])

Retain ==
    \E f \in Preds :
        LET r == retain(f) IN
        /\ lists' = r.lists
        /\ ret' = Call("retain", <<Cardinality(f)>>, r.kind, r.val)
        /\ vec' = r.vec
        /\ UNCHANGED <<ext, nonVec>>

\* The loop of Vec.dedup_by.
RECURSIVE DedupLoop(_, _, _, _)
DedupLoop(s, idx, len_, same_bucket) ==
    IF idx < len_
    THEN IF Bucket(same_bucket, s[idx + 1], s[idx])
         THEN DedupLoop(RemoveAt(s, idx + 1), idx, len_ - 1, same_bucket)
         ELSE DedupLoop(s, idx + 1, len_, same_bucket)
    ELSE s

dedup_by_from2(same_bucket) ==
    IF vec.ptr = NoRef THEN Raise("AttributeError")
    ELSE IF Len(lists[vec.ptr]) <= 1 THEN Out("None", <<>>, lists)
    ELSE Out("None", <<>>,
             [lists EXCEPT ![vec.ptr] = DedupLoop(@, 2, Len(@), same_bucket)])

\* Vec.dedup_by(same_bucket)
dedup_by(same_bucket) ==
    IF vec.ptr = NoRef THEN Raise("AttributeError")
    ELSE IF Len(lists[vec.ptr]) <= 1 THEN Out("None", <<>>, lists)
    ELSE Out("None", <<>>,
             [lists EXCEPT ![vec.ptr] = DedupLoop(@, 1, Len(@), same_bucket)])

DedupBy ==
    \E same_bucket \in Buckets :
        LET r == dedup_by(same_bucket) IN
        /\ lists' = r.lists
        /\ ret' = Call("dedup_by", <<same_bucket>>, r.kind, r.val)
        /\ vec' = r.vec
        /\ UNCHANGED <<ext, nonVec>>

split_off_copy(at) ==
    LET len_ == Len(View) IN
    IF at > len_ THEN Raise("IndexError")
    ELSE IF vec.ptr = NoRef THEN Raise("AttributeError")
    ELSE IF lists[vec.ptr] = <<>> THEN Out("Self", <<>>, lists)
    ELSE Out("Vec", PySlice(lists[vec.ptr], at, len_), lists)

\* Vec.split_off(at): the returned Vec owns a new list holding [at, len);
\* its contents are the result, and the caller keeps no other handle to it.
split_off(at) ==
    LET len_ == Len(View) IN
    IF at > len_ THEN Raise("IndexError")
    ELSE IF vec.ptr = NoRef THEN Raise("AttributeError")
    ELSE IF lists[vec.ptr] = <<>> THEN Out("Self", <<>>, lists)
    ELSE Out("Vec", PySlice(lists[vec.ptr], at, len_),
             [lists EXCEPT ![vec.ptr] = PyDelSlice(@, at, len_)])

SplitOff ==
    \E at \in 0..MaxArg :
        LET r == split_off(at) IN
        /\ lists' = r.lists
        /\ ret' = Call("split_off", <<at>>, r.kind, r.val)
        /\ vec' = r.vec
        /\ UNCHANGED <<ext, nonVec>>

\* Vec.split_off(at) with the result kept by the caller: the new list made by
\* `self._ptr[at:len_]` takes heap slot 2 and the caller's handle is the
\* storage of the Vec returned (that of self when self is returned).
SplitOffKeep ==
    \E at \in 0..MaxArg :
        LET r == split_off(at) IN
        /\ lists' = IF r.kind = "Vec" THEN [r.lists EXCEPT ![2] = r.val]
                    ELSE r.lists
        /\ ext' = IF r.kind = "Vec" THEN 2
                  ELSE IF r.kind = "Self" THEN r.vec.ptr
                  ELSE ext
        /\ ret' = Call("split_off", <<at>>, r.kind, r.val)
        /\ vec' = r.vec
        /\ UNCHANGED nonVec

\* Vec.clear()
clear ==
    IF vec.ptr = NoRef THEN Raise("AttributeError")
    ELSE Out("None", <<>>, [lists EXCEPT ![vec.ptr] = <<>>])

Clear ==
    LET r == clear IN
    /\ lists' = r.lists
    /\ ret' = Call("clear", <<>>, r.kind, r.val)
    /\ vec' = r.vec
    /\ UNCHANGED <<ext, nonVec>>

\* Vec.reserve(additional)
Min(a, b) == IF a < b THEN a ELSE b
Max(a, b) == IF a > b THEN a ELSE b

reserve_to(v, additional) ==
    IF HasCap(v) THEN [v EXCEPT !.cap = <<Max(Cap(v), additional)>>] ELSE v

\* Vec.reserve(additional): `self._capacity += additional` unless None.
reserve(v, additional) ==
    IF HasCap(v) THEN [v EXCEPT !.cap = <<Cap(v) + additional>>] ELSE v

Reserve ==
    \E additional \in 0..2 :
        /\ HasCap(vec) => Cap(vec) + additional <= MaxLen
        /\ vec' = reserve(vec, additional)
        /\ ret' = Call("reserve", <<additional>>, "None", <<>>)
        /\ UNCHANGED <<lists, ext, nonVec>>

\* Vec.shrink_to_fit()
shrink_to_fit(v, len) ==
    IF ~HasCap(v) THEN v ELSE [v EXCEPT !.cap = <<Min(len, Cap(v))>>]

ShrinkToFit ==
    /\ vec' = shrink_to_fit(vec, Len(View))
    /\ ret' = Call("shrink_to_fit", <<>>, "None", <<>>)
    /\ UNCHANGED <<lists, ext, nonVec>>

\* Vec.shrink_to(min_capacity)
shrink_to(v, len, min_capacity) ==
    IF ~HasCap(v) \/ Cap(v) <= min_capacity THEN v
    ELSE [v EXCEPT !.cap = <<Max(len, min_capacity)>>]

ShrinkTo ==
    \E min_capacity \in 0..MaxLen :
        /\ vec' = shrink_to(vec, Len(View), min_capacity)
        /\ ret' = Call("shrink_to", <<min_capacity>>, "None", <<>>)
        /\ UNCHANGED <<lists, ext, nonVec>>

\* Vec.leak(): `tmp = self._ptr; del self._ptr; return tmp`.  Only _ptr is
\* deleted; the _buf slot set by SliceMut.__init__ keeps its reference.
leak(v) == [v EXCEPT !.ptr = NoRef]

Leak ==
    IF vec.ptr = NoRef
    THEN /\ ret' = Call("leak", <<>>, "AttributeError", <<>>)
         /\ UNCHANGED <<lists, vec, ext, nonVec>>
    ELSE /\ vec' = leak(vec)
         /\ ext' = vec.ptr
         /\ ret' = Call("leak", <<>>, "List", lists[vec.ptr])
         /\ UNCHANGED <<lists, nonVec>>

\* SliceMut.as_mut_ptr(): the caller receives the list itself.
AsMutPtr ==
    /\ ext' = vec.buf
    /\ ret' = Call("as_mut_ptr", <<>>, "List", View)
    /\ UNCHANGED <<lists, vec, nonVec>>

\* The caller mutates the list it holds, bypassing the Vec.
ExtAppend ==
    \E x \in Val :
        /\ ext # NoRef
        /\ Len(lists[ext]) < MaxLen
        /\ lists' = [lists EXCEPT ![ext] = Append(@, x)]
        /\ ret' = Call("list.append", <<x>>, "None", <<>>)
        /\ UNCHANGED <<vec, ext, nonVec>>

ExtPop ==
    /\ ext # NoRef
    /\ lists[ext] # <<>>
    /\ lists' = [lists EXCEPT ![ext] = SubSeq(@, 1, Len(@) - 1)]
    /\ ret' = Call("list.pop", <<>>, "None", <<lists[ext][Len(lists[ext])]>>)
    /\ UNCHANGED <<vec, ext, nonVec>>

\* ---- reads of the Vec, inherited from Slice: each goes through _buf
Bool(b) == IF b THEN <<1>> ELSE <<0>>

\* Slice.len / Slice.__len__
len == IF vec.buf = NoRef THEN Raise("AttributeError")
       ELSE Out("Int", <<Len(View)>>, lists)

\* Slice.__getitem__(index) for an integer index
getitem(index) ==
    IF vec.buf = NoRef THEN Raise("AttributeError")
    ELSE LET p == PyIndex(View, index) IN
         IF p = 0 THEN Raise("IndexError") ELSE Out("Item", <<View[p]>>, lists)

get_unchecked(index) == getitem(index)

\* Slice.get(index): IndexError becomes the absent value.
get(index) ==
    LET r == getitem(index) IN
    IF r.kind = "Item" THEN Out("Some", r.val, lists)
    ELSE IF r.kind = "IndexError" THEN Out("Nothing", <<>>, lists)
    ELSE r

\* Slice.first(): `Some(self[0]) if self else Some(None)`
first ==
    IF vec.buf = NoRef THEN Raise("AttributeError")
    ELSE IF View # <<>> THEN Out("Some", <<View[1]>>, lists)
    ELSE Out("Nothing", <<>>, lists)

\* Iterating the Vec (Sequence.__iter__ over __getitem__).
iterate ==
    IF vec.buf = NoRef THEN Raise("AttributeError")
    ELSE Out("List", View, lists)

\* Slice.__eq__(value)
eq(value) ==
    IF vec.buf = NoRef THEN Raise("AttributeError")
    ELSE Out("Bool", Bool(View = value), lists)

VecLen ==
    LET r == len IN
    /\ ret' = Call("len", <<>>, r.kind, r.val)
    /\ UNCHANGED <<lists, vec, ext, nonVec>>

VecGetItem ==
    \E index \in {0 - 1, 0, MaxArg} :
        LET r == getitem(index) IN
        /\ ret' = Call("getitem", <<index>>, r.kind, r.val)
        /\ UNCHANGED <<lists, vec, ext, nonVec>>

VecGet ==
    \E index \in 0..MaxArg :
        LET r == get(index) IN
        /\ ret' = Call("get", <<index>>, r.kind, r.val)
        /\ UNCHANGED <<lists, vec, ext, nonVec>>

VecFirst ==
    LET r == first IN
    /\ ret' = Call("first", <<>>, r.kind, r.val)
    /\ UNCHANGED <<lists, vec, ext, nonVec>>

VecIter ==
    LET r == iterate IN
    /\ ret' = Call("iter", <<>>, r.kind, r.val)
    /\ UNCHANGED <<lists, vec, ext, nonVec>>

VecEq ==
    \E value \in {View, <<>>} :
        LET r == eq(value) IN
        /\ ret' = Call("eq", value, r.kind, r.val)
        /\ UNCHANGED <<lists, vec, ext, nonVec>>

\* Slice.last(): `Some(self[-1]) if self else Some(None)`
last ==
    IF vec.buf = NoRef THEN Raise("AttributeError")
    ELSE IF View # <<>> THEN Out("Some", <<View[Len(View)]>>, lists)
    ELSE Out("Nothing", <<>>, lists)

\* Slice.split_first(): the first element and a new view of the rest
split_first ==
    IF vec.buf = NoRef THEN Raise("AttributeError")
    ELSE IF Len(View) = 0 THEN Out("Nothing", <<>>, lists)
    ELSE Out("Some", <<View[PyIndex(View, 0)], PySlice(View, 1, NoIdx)>>,
             lists)

\* Slice.split_last(): the last element and a new view of the others
split_last ==
    IF vec.buf = NoRef THEN Raise("AttributeError")
    ELSE IF Len(View) = 0 THEN Out("Nothing", <<>>, lists)
    ELSE Out("Some",
             <<View[PyIndex(View, 0 - 1)], PySlice(View, NoIdx, 0 - 1)>>,
             lists)

VecLast ==
    LET r == last IN
    /\ ret' = Call("last", <<>>, r.kind, r.val)
    /\ UNCHANGED <<lists, vec, ext, nonVec>>

VecSplitFirst ==
    LET r == split_first IN
    /\ lists' = r.lists
    /\ ret' = Call("split_first", <<>>, r.kind, r.val)
    /\ UNCHANGED <<vec, ext, nonVec>>

VecSplitLast ==
    LET r == split_last IN
    /\ lists' = r.lists
    /\ ret' = Call("split_last", <<>>, r.kind, r.val)
    /\ UNCHANGED <<vec, ext, nonVec>>

as_mut_slice_copy ==
    IF vec.ptr = NoRef THEN [kind |-> "AttributeError", lists |-> lists,
                             buf |-> ext]
    ELSE [kind |-> "SliceMut",
          lists |-> [lists EXCEPT ![2] = lists[vec.ptr]], buf |-> 2]

\* Vec.as_mut_slice(): `SliceMut(self._ptr)`, a view whose _buf is the list
\* of the Vec.
as_mut_slice ==
    IF vec.ptr = NoRef THEN [kind |-> "AttributeError", lists |-> lists,
                             buf |-> ext]
    ELSE [kind |-> "SliceMut", lists |-> lists, buf |-> vec.ptr]

\* The caller keeps the view: ext is the list its _buf points to.
AsMutSlice ==
    LET r == as_mut_slice IN
    /\ lists' = r.lists
    /\ ext' = r.buf
    /\ ret' = Call("as_mut_slice", <<>>, r.kind, <<>>)
    /\ UNCHANGED <<vec, nonVec>>

\* SliceMut.split_off_first() on the view over the list b
split_off_first(b) ==
    IF Len(lists[b]) = 0 THEN Out("Nothing", <<>>, lists)
    ELSE Out("Some", <<lists[b][PyIndex(lists[b], 0)]>>,
             [lists EXCEPT ![b] = RemoveAt(@, PyIndex(@, 0))])

\* SliceMut.split_off_last() on the view over the list b
split_off_last(b) ==
    IF Len(lists[b]) = 0 THEN Out("Nothing", <<>>, lists)
    ELSE Out("Some", <<lists[b][PyIndex(lists[b], 0 - 1)]>>,
             [lists EXCEPT ![b] = RemoveAt(@, PyIndex(@, 0 - 1))])

SplitOffFirst ==
    /\ ext # NoRef
    /\ LET r == split_off_first(ext) IN
       /\ lists' = r.lists
       /\ ret' = Call("split_off_first", <<>>, r.kind, r.val)
       /\ UNCHANGED <<vec, ext, nonVec>>

SplitOffLast ==
    /\ ext # NoRef
    /\ LET r == split_off_last(ext) IN
       /\ lists' = r.lists
       /\ ret' = Call("split_off_last", <<>>, r.kind, r.val)
       /\ UNCHANGED <<vec, ext, nonVec>>

\* Vec.insert(index, value): `self[index] = value`, which is
\* SliceMut.__setitem__: `self._buf[index] = value`.
insert(index, value) ==
    IF vec.buf = NoRef THEN Raise("AttributeError")
    ELSE LET p == PyIndex(View, index) IN
         IF p = 0 THEN Raise("IndexError")
         ELSE Out("None", <<>>, [lists EXCEPT ![vec.buf][p] = value])

Insert ==
    \E index \in 0..MaxArg, value \in Val :
        LET r == insert(index, value) IN
        /\ lists' = r.lists
        /\ vec' = r.vec
        /\ ret' = Call("insert", <<index, value>>, r.kind, r.val)
        /\ UNCHANGED <<ext, nonVec>>

\* SliceMut.fill(value): `self[:] = [value] * len(self)` through _buf.
fill(value) ==
    IF vec.buf = NoRef THEN Raise("AttributeError")
    ELSE IF View = <<>> THEN Out("None", <<>>, lists)
    ELSE Out("None", <<>>,
             [lists EXCEPT ![vec.buf] = [i \in 1..Len(@) |-> value]])

VecFill ==
    \E value \in Val :
        LET r == fill(value) IN
        /\ lists' = r.lists
        /\ vec' = r.vec
        /\ ret' = Call("fill", <<value>>, r.kind, r.val)
        /\ UNCHANGED <<ext, nonVec>>

\* SliceMut.fill_with(f): `self[:] = [f()] * len(self)`.  fs lists the values
\* f returns on its successive calls; the result carries the number of calls
\* made.
fill_with(fs) ==
    IF vec.buf = NoRef THEN Raise("AttributeError")
    ELSE IF View = <<>> THEN Out("None", <<0>>, lists)
    ELSE Out("None", <<1>>,
             [lists EXCEPT ![vec.buf] = [i \in 1..Len(@) |-> fs[1]]])

FillWith ==
    \E fs \in {t \in SeqsUpTo(MaxLen) : Len(t) = MaxLen} :
        LET r == fill_with(fs) IN
        /\ lists' = r.lists
        /\ vec' = r.vec
        /\ ret' = Call("fill_with", fs, r.kind, r.val)
        /\ UNCHANGED <<ext, nonVec>>

\* SliceMut.split_at_mut_checked(mid): the two halves are new lists made by
\* slicing; `Some(None)` when mid > len.
split_at_mut_checked(mid) ==
    IF vec.buf = NoRef THEN Raise("AttributeError")
    ELSE IF mid > Len(View) THEN Out("Nothing", <<>>, lists)
    ELSE Out("Some", <<PySlice(View, 0, mid), PySlice(View, mid, NoIdx)>>,
             lists)

SplitAtMutChecked ==
    \E mid \in 0..MaxArg :
        LET r == split_at_mut_checked(mid) IN
        /\ ret' = Call("split_at_mut_checked", <<mid>>, r.kind, r.val)
        /\ UNCHANGED <<lists, vec, ext, nonVec>>

\* SliceMut.__copy_from_slice_slow(src, copier, count).  The elements are
\* ints, which copy.copy and copy.deepcopy return as they are.
RECURSIVE copy_from_slice_slow(_, _, _, _)
copy_from_slice_slow(dst, src, start, count) ==
    IF start < count
    THEN copy_from_slice_slow([dst EXCEPT ![start + 1] = src[start + 1]],
                              src, start + 1, count)
    ELSE dst

copy_from_slice_prefix(src) ==
    IF vec.buf = NoRef THEN Raise("AttributeError")
    ELSE IF Len(lists[src]) > Len(View) THEN Raise("IndexError")
    ELSE Out("None", <<>>,
             [lists EXCEPT ![vec.buf] =
                 copy_from_slice_slow(@, lists[src], 0, Len(lists[src]))])

\* SliceMut.copy_from_slice(src), src being the list in heap slot src
copy_from_slice(src) ==
    IF vec.buf = NoRef THEN Raise("AttributeError")
    ELSE IF Len(lists[src]) # Len(View) THEN Raise("IndexError")
    ELSE Out("None", <<>>,
             [lists EXCEPT ![vec.buf] =
                 copy_from_slice_slow(@, lists[src], 0, Len(View))])

\* SliceMut.clone_from_slice(src): the same with copy.deepcopy
clone_from_slice(src) ==
    IF vec.buf = NoRef THEN Raise("AttributeError")
    ELSE IF Len(lists[src]) # Len(View) THEN Raise("IndexError")
    ELSE Out("None", <<>>,
             [lists EXCEPT ![vec.buf] =
                 copy_from_slice_slow(@, lists[src], 0, Len(View))])

\* The source of a copy is the caller's second list (heap slot 2); the call
\* record keeps what it held when the call was made.
CopyFromSlice ==
    LET r == copy_from_slice(2) IN
    /\ lists' = r.lists
    /\ vec' = r.vec
    /\ ret' = Call("copy_from_slice", lists[2], r.kind, r.val)
    /\ UNCHANGED <<ext, nonVec>>

CloneFromSlice ==
    LET r == clone_from_slice(2) IN
    /\ lists' = r.lists
    /\ vec' = r.vec
    /\ ret' = Call("clone_from_slice", lists[2], r.kind, r.val)
    /\ UNCHANGED <<ext, nonVec>>

\* ------------------------------------------------------- specifications
NoBCall == [op |-> "new", obj |-> 0, arg |-> <<>>, kind |-> "None",
            val |-> <<>>, res |-> 0, pre |-> <<>>, prebuf |-> 0,
            prior |-> <<>>]
NoIter ==
    [kind |-> "none", v |-> <<>>, pred |-> "", size |-> 0, rem |-> <<>>,
     done |-> FALSE]
NoSCall == [op |-> "new", arg |-> 0, kind |-> "None", a |-> <<>>, b |-> <<>>]

IdleVec == /\ lists = << <<>>, <<>> >>
           /\ vec = [ptr |-> 1, buf |-> 1, cap |-> NoCap]
           /\ ext = NoRef
           /\ ret = NoCall
IdleBuf == arrs = <<>> /\ objs = <<>> /\ moved = {} /\ bret = NoBCall
IdleSlice == sv = <<>> /\ iter = NoIter /\ yielded = <<>> /\ sret = NoSCall

\* Vec(iterable) with another Vec: `self._ptr = iterable._ptr`.
VecInitFromVec(w) == VecInit(w.ptr)

\* A Vec built on the caller's list L (directly or through another Vec over
\* L), or a fresh bounded Vec.
InitVec ==
    /\ IdleBuf /\ IdleSlice
    /\ ret = NoCall
    /\ \/ /\ \E L \in SeqsUpTo(MaxLen) : lists = <<L, <<>> >>
          /\ vec \in {VecInit(1), VecInitFromVec(VecInit(1))}
          /\ ext = 1
       \/ /\ lists = << <<>>, <<>> >>
          /\ \E n \in 0..MaxLen : vec = with_capacity(1, n)
          /\ ext = NoRef

NextVec ==
    \/ PushWithinCapacity \/ Push \/ VecAppend \/ Extend
    \/ Pop \/ PopIf \/ Truncate \/ Retain \/ DedupBy \/ SplitOff \/ Clear
    \/ Reserve \/ ShrinkToFit \/ ShrinkTo
    \/ Leak \/ AsMutPtr \/ ExtAppend \/ ExtPop
    \/ VecLen \/ VecGetItem \/ VecGet \/ VecFirst \/ VecIter \/ VecEq
    \/ VecFill

SpecVec == InitVec /\ [][NextVec]_vars

\* Vec.with_capacity(n) followed by push_within_capacity calls only.
InitCap ==
    /\ IdleBuf /\ IdleSlice
    /\ lists = << <<>>, <<>> >>
    /\ \E n \in 0..MaxCap : vec = with_capacity(1, n)
    /\ ext = NoRef
    /\ ret = NoCall

NextCap == PushWithinCapacity

SpecCap == InitCap /\ [][NextCap]_vars

\* A Vec, bounded or not, used through push_within_capacity and reserve.
InitReserve ==
    /\ IdleBuf /\ IdleSlice
    /\ lists = << <<>>, <<>> >>
    /\ \/ \E n \in 0..MaxCap : vec = with_capacity(1, n)
       \/ vec = VecInit(1)
    /\ ext = NoRef
    /\ ret = NoCall

NextReserve == PushWithinCapacity \/ Reserve

SpecReserve == InitReserve /\ [][NextReserve]_vars

\* A mutable view over the caller's list L.
InitMut ==
    /\ IdleBuf /\ IdleSlice
    /\ ret = NoCall
    /\ \E L \in SeqsUpTo(MaxLen) : lists = <<L, <<>> >>
    /\ vec = VecInit(1)
    /\ ext = 1

NextMut == FillWith \/ SplitAtMutChecked \/ Insert

SpecMut == InitMut /\ [][NextMut]_vars

\* A mutable view over the caller's list L, and a second list to copy from.
InitCopy ==
    /\ IdleBuf /\ IdleSlice
    /\ ret = NoCall
    /\ \E L \in SeqsUpTo(MaxLen), src \in SeqsUpTo(MaxLen) : lists = <<L, src>>
    /\ vec = VecInit(1)
    /\ ext = 1

NextCopy == CopyFromSlice \/ CloneFromSlice

SpecCopy == InitCopy /\ [][NextCopy]_vars

\* A Vec that owns its storage, the results of split_off being kept.
InitSplit ==
    /\ IdleBuf /\ IdleSlice
    /\ ret = NoCall
    /\ \E L \in SeqsUpTo(MaxLen) : lists = <<L, <<>> >>
    /\ vec = VecInit(1)
    /\ ext = NoRef

NextSplit == SplitOffKeep \/ Push \/ Pop \/ ExtAppend \/ ExtPop

SpecSplit == InitSplit /\ [][NextSplit]_vars

\* A Vec that owns its storage and the mutable views minted from it.
InitView ==
    /\ IdleBuf /\ IdleSlice
    /\ ret = NoCall
    /\ \E L \in SeqsUpTo(MaxLen) : lists = <<L, <<>> >>
    /\ vec = VecInit(1)
    /\ ext = NoRef

NextView == AsMutSlice \/ SplitOffFirst \/ SplitOffLast \/ Push \/ VecLen

SpecView == InitView /\ [][NextView]_vars

\* ------------------------------------------------------------------ Slice
SCall(op, arg, kind, a, b) ==
    [op |-> op, arg |-> arg, kind |-> kind, a |-> a, b |-> b]

Pair(a, b) == [kind |-> "Pair", a |-> a, b |-> b]
NoPair(err) == [kind |-> err, a |-> <<>>, b |-> <<>>]

split_at_off(v, mid) ==
    IF mid >= Len(v) THEN NoPair("IndexError")
    ELSE Pair(PySlice(v, 0, mid), PySlice(v, mid, NoIdx))

\* Slice.split_at(mid)
split_at(v, mid) ==
    IF mid > Len(v) THEN NoPair("IndexError")
    ELSE Pair(PySlice(v, 0, mid), PySlice(v, mid, NoIdx))

split_at_checked_strict(v, mid) ==
    IF mid > Len(v) THEN NoPair("IndexError")
    ELSE Pair(PySlice(v, 0, mid), PySlice(v, mid, NoIdx))

\* Slice.split_at_checked(mid)
split_at_checked(v, mid) == Pair(PySlice(v, 0, mid), PySlice(v, mid, NoIdx))

SplitAt ==
    \E mid \in 0..MaxArg :
        LET r == split_at(sv, mid) IN
        /\ sret' = SCall("split_at", mid, r.kind, r.a, r.b)
        /\ UNCHANGED <<sv, iter, yielded, nonSlice>>

SplitAtChecked ==
    \E mid \in 0..MaxArg :
        LET r == split_at_checked(sv, mid) IN
        /\ sret' = SCall("split_at_checked", mid, r.kind, r.a, r.b)
        /\ UNCHANGED <<sv, iter, yielded, nonSlice>>

\* Iterator.position(pred) followed by transpose(): the 0-based index of the
\* first element satisfying pred, in a one-element tuple, or the empty tuple
\* for None.  A predicate is the set of the values it accepts.
position(v, pred) ==
    LET hits == {i \in 1..Len(v) : v[i] \in pred} IN
    IF hits = {} THEN <<>>
    ELSE <<(CHOOSE i \in hits : \A j \in hits : i <= j) - 1>>

split_once_truthy(v, pred) ==
    LET index == position(v, pred) IN
    IF index # <<>> /\ index[1] # 0
    THEN [kind |-> "Some", a |-> PySlice(v, NoIdx, index[1]),
          b |-> PySlice(v, index[1] + 1, NoIdx)]
    ELSE NoPair("Nothing")

\* Slice.split_once(pred)
split_once(v, pred) ==
    LET index == position(v, pred) IN
    IF index # <<>>
    THEN [kind |-> "Some", a |-> PySlice(v, NoIdx, index[1]),
          b |-> PySlice(v, index[1] + 1, NoIdx)]
    ELSE NoPair("Nothing")

SplitOnce ==
    \E pred \in Preds :
        LET r == split_once(sv, pred) IN
        /\ sret' = SCall("split_once", pred, r.kind, r.a, r.b)
        /\ UNCHANGED <<sv, iter, yielded, nonSlice>>

\* What __next__ of an iterator did: raised StopIteration, or returned item
\* and left v to iterate.
Stop(v) == [stop |-> TRUE, item |-> <<>>, v |-> v]
Yield(item, v) == [stop |-> FALSE, item |-> item, v |-> v]

windows_next_jump(v, size) ==
    IF size > Len(v) THEN Stop(v)
    ELSE Yield(PySlice(v, NoIdx, size), PySlice(v, size, NoIdx))

\* Windows.__next__
windows_next(v, size) ==
    IF size > Len(v) THEN Stop(v)
    ELSE Yield(PySlice(v, NoIdx, size), PySlice(v, 1, NoIdx))

\* The loop of ChunkBy.__next__ over `it = self._v.windows(2)`: the length
\* of the group, or 0 when next(it) raises StopIteration, which nothing in
\* __next__ catches.
RECURSIVE ChunkByScan(_, _, _)
ChunkByScan(w, len_, predicate) ==
    LET n == windows_next(w, 2) IN
    IF n.stop THEN 0
    ELSE IF Bucket(predicate, n.item[1], n.item[2])
    THEN ChunkByScan(n.v, len_ + 1, predicate)
    ELSE len_

\* ChunkBy.__next__
chunk_by_next(v, predicate) ==
    IF v = <<>> THEN Stop(v)
    ELSE LET len_ == ChunkByScan(v, 1, predicate) IN
         IF len_ = 0 THEN Stop(v)
         ELSE LET sp == split_at(v, len_) IN
              IF sp.kind = "Pair" THEN Yield(sp.a, sp.b) ELSE Stop(v)

\* Slice.chunk_by(predicate) / ChunkBy.__init__
ChunkByNew ==
    \E predicate \in Buckets :
        /\ iter' = [kind |-> "chunk_by", v |-> sv, pred |-> predicate,
                    size |-> 0, rem |-> <<>>, done |-> FALSE]
        /\ yielded' = <<>>
        /\ sret' = SCall("chunk_by", 0, "Iter", <<>>, <<>>)
        /\ UNCHANGED <<sv, nonSlice>>

\* One call of next on the iterator; the calls are followed while no more
\* than MaxLen items have been yielded.
Advance(r) ==
    /\ Len(yielded) <= MaxLen
    /\ IF r.stop
       THEN /\ iter' = [iter EXCEPT !.done = TRUE]
            /\ sret' = SCall("next", 0, "StopIteration", <<>>, <<>>)
            /\ UNCHANGED <<sv, yielded, nonSlice>>
       ELSE /\ iter' = [iter EXCEPT !.v = r.v]
            /\ yielded' = Append(yielded, r.item)
            /\ sret' = SCall("next", 0, "Item", r.item, <<>>)
            /\ UNCHANGED <<sv, nonSlice>>

ChunkByNext ==
    /\ iter.kind = "chunk_by"
    /\ Advance(chunk_by_next(iter.v, iter.pred))

\* An iterator object over the view: its kind, _v, its size and _rem.
IterOf(kind, v, size, rem) ==
    [kind |-> kind, v |-> v, pred |-> "", size |-> size, rem |-> rem,
     done |-> FALSE]

\* A constructor that returned the iterator it / that raised err.
NewIter(op, arg, it) ==
    /\ iter' = it
    /\ yielded' = <<>>
    /\ sret' = SCall(op, arg, "Iter", <<>>, <<>>)
    /\ UNCHANGED <<sv, nonSlice>>

FailNew(op, arg, err) ==
    /\ sret' = SCall(op, arg, err, <<>>, <<>>)
    /\ UNCHANGED <<sv, iter, yielded, nonSlice>>

\* Slice.chunks(chunk_size) / Chunks.__init__
ChunksNew ==
    \E chunk_size \in 0..MaxArg :
        IF chunk_size = 0 THEN FailNew("chunks", chunk_size, "ValueError")
        ELSE NewIter("chunks", chunk_size,
                     IterOf("chunks", sv, chunk_size, <<>>))

chunks_next_skip(v, chunk_size) ==
    IF v = <<>> THEN Stop(v)
    ELSE LET sp == split_at(v, Min(Len(v), chunk_size)) IN
         Yield(sp.a, PySlice(sp.b, 1, NoIdx))

\* Chunks.__next__
chunks_next(v, chunk_size) ==
    IF v = <<>> THEN Stop(v)
    ELSE LET sp == split_at(v, Min(Len(v), chunk_size)) IN
         Yield(sp.a, sp.b)

ChunksNext ==
    /\ iter.kind = "chunks"
    /\ Advance(chunks_next(iter.v, iter.size))

\* Slice.windows(size) / Windows.__init__
WindowsNew ==
    \E size \in 0..MaxArg :
        IF size = 0 THEN FailNew("windows", size, "ValueError")
        ELSE NewIter("windows", size, IterOf("windows", sv, size, <<>>))

WindowsNext ==
    /\ iter.kind = "windows"
    /\ Advance(windows_next(iter.v, iter.size))

chunks_exact_init_whole(s, chunk_size) ==
    IterOf("chunks_exact", s, chunk_size, <<>>)

\* ChunksExact.__init__ with chunk_size >= 1
chunks_exact_init(s, chunk_size) ==
    LET rem == Len(s) % chunk_size
        sp == split_at_checked(s, Len(s) - rem)
    IN IterOf("chunks_exact", sp.a, chunk_size, sp.b)

\* Slice.chunks_exact(chunk_size); `len(s) % 0` raises ZeroDivisionError
ChunksExactNew ==
    \E chunk_size \in 0..MaxArg :
        IF chunk_size = 0
        THEN FailNew("chunks_exact", chunk_size, "ZeroDivisionError")
        ELSE NewIter("chunks_exact", chunk_size,
                     chunks_exact_init(sv, chunk_size))

\* ChunksExact.__next__
chunks_exact_next(v, chunk_size) ==
    IF Len(v) < chunk_size THEN Stop(v)
    ELSE LET sp == split_at(v, chunk_size) IN Yield(sp.a, sp.b)

ChunksExactNext ==
    /\ iter.kind = "chunks_exact"
    /\ Advance(chunks_exact_next(iter.v, iter.size))

\* ChunksExact.remainder()
ChunksExactRemainder ==
    /\ iter.kind = "chunks_exact"
    /\ sret' = SCall("remainder", 0, "Slice", iter.rem, <<>>)
    /\ UNCHANGED <<sv, iter, yielded, nonSlice>>

\* ---- Chars: the iterator of Bytes.chars() over the buffer's data sv
\* Chars.__init__: _offset is a memoryview of the whole data, _len its
\* length and _bytes (rem) an iterator over the bytes.
chars(buf) == IterOf("chars", buf, Len(buf), buf)

CharsNew == NewIter("chars", 0, chars(sv))

\* Chars.__next__: `self._len -= 1; return self._bytes.__next__()`.  The
\* decrement comes first, also on the call that raises StopIteration.
CharsNext ==
    /\ iter.kind = "chars"
    /\ ~iter.done
    /\ IF iter.rem = <<>>
       THEN /\ iter' = [iter EXCEPT !.size = @ - 1, !.done = TRUE]
            /\ sret' = SCall("next", 0, "StopIteration", <<>>, <<>>)
            /\ UNCHANGED <<sv, yielded, nonSlice>>
       ELSE /\ iter' = [iter EXCEPT !.size = @ - 1, !.rem = Tail(@)]
            /\ yielded' = Append(yielded, <<Head(iter.rem)>>)
            /\ sret' = SCall("next", 0, "Item", <<Head(iter.rem)>>, <<>>)
            /\ UNCHANGED <<sv, nonSlice>>

\* Chars.as_slice(): `Slice(self._offset[-self._len :])`
chars_as_slice(offset, rem, len_) == PySlice(offset, 0 - len_, NoIdx)

CharsAsSlice ==
    /\ iter.kind = "chars"
    /\ sret' = SCall("as_slice", 0, "Slice",
                     chars_as_slice(iter.v, iter.rem, iter.size), <<>>)
    /\ UNCHANGED <<sv, iter, yielded, nonSlice>>

\* ---- __len__ of the iterators
\* int(a / b) for a >= 0 and b # 0: true division, truncated towards zero
TruncDiv(a, b) == IF b > 0 THEN a \div b ELSE 0 - (a \div (0 - b))

\* a % b of Python: the result has the sign of b
PyMod(a, b) == IF b > 0 THEN a % b ELSE 0 - ((0 - a) % (0 - b))

\* Chunks.__len__
chunks_len(v, chunk_size) ==
    IF v = <<>> THEN 0
    ELSE IF PyMod(Len(v), chunk_size) > 0
    THEN TruncDiv(Len(v), chunk_size) + 1
    ELSE TruncDiv(Len(v), chunk_size)

\* ChunkBy.__len__: `return len(self._v)`
chunk_by_len(v) == Len(v)

\* ChunksExact.__len__
chunks_exact_len(v, chunk_size) == TruncDiv(Len(v), chunk_size)

\* Windows.__len__
windows_len(v, size) == IF size > Len(v) THEN 0 ELSE Len(v) - size + 1

\* len(it) on the current iterator
IterLen ==
    /\ iter.kind \in {"chunks", "chunk_by", "chunks_exact", "windows"}
    /\ sret' = SCall("len",
                     CASE iter.kind = "chunks" ->
                              chunks_len(iter.v, iter.size)
                       [] iter.kind = "chunk_by" -> chunk_by_len(iter.v)
                       [] iter.kind = "chunks_exact" ->
                              chunks_exact_len(iter.v, iter.size)
                       [] iter.kind = "windows" ->
                              windows_len(iter.v, iter.size),
                     "Int", <<>>, <<>>)
    /\ UNCHANGED <<sv, iter, yielded, nonSlice>>

\* Slice.chunks(chunk_size) and Slice.windows(size) with a size of either
\* sign: __init__ rejects 0 only.
ChunksSigned ==
    \E chunk_size \in (0 - MaxArg)..MaxArg :
        IF chunk_size = 0 THEN FailNew("chunks", chunk_size, "ValueError")
        ELSE NewIter("chunks", chunk_size,
                     IterOf("chunks", sv, chunk_size, <<>>))

WindowsSigned ==
    \E size \in (0 - MaxArg)..MaxArg :
        IF size = 0 THEN FailNew("windows", size, "ValueError")
        ELSE NewIter("windows", size, IterOf("windows", sv, size, <<>>))

InitSlice ==
    /\ IdleVec /\ IdleBuf
    /\ sv \in SeqsUpTo(MaxLen)
    /\ iter = NoIter
    /\ yielded = <<>>
    /\ sret = NoSCall

NextSlice ==
    \/ SplitAt \/ SplitAtChecked \/ ChunkByNew \/ ChunkByNext
    \/ ChunksNew \/ ChunksNext \/ WindowsNew \/ WindowsNext
    \/ ChunksExactNew \/ ChunksExactNext \/ ChunksExactRemainder
    \/ SplitOnce

SpecSlice == InitSlice /\ [][NextSlice]_vars

\* A buffer holding the bytes sv, and the Chars iterator over it.
InitChars == InitSlice

NextChars == CharsNew \/ CharsNext \/ CharsAsSlice

SpecChars == InitChars /\ [][NextChars]_vars

\* The four iterators over the view, stepped and asked for their length.
InitLen == InitSlice

NextLen ==
    \/ ChunksNew \/ ChunksNext \/ WindowsNew \/ WindowsNext
    \/ ChunksExactNew \/ ChunksExactNext \/ ChunkByNew \/ ChunkByNext
    \/ IterLen

SpecLen == InitLen /\ [][NextLen]_vars

\* chunks and windows iterators of any non-zero size, stepped with next.
InitSigned == InitSlice

NextSigned == ChunksSigned \/ WindowsSigned \/ ChunksNext \/ WindowsNext

SpecSigned == InitSigned /\ [][NextSigned]_vars

\* ------------------------------------- traversals of a view over a list
\* The splitting and iterating methods called on a view whose _buf is the
\* caller's list: what they return, and the heap as the call leaves it.
view_split_at_take(mid) ==
    LET r == split_at(View, mid) IN
    IF r.kind = "Pair"
    THEN Out(r.kind, <<r.a, r.b>>, [lists EXCEPT ![vec.buf] = r.b])
    ELSE Out(r.kind, <<r.a, r.b>>, lists)

\* Slice.split_at(mid)
view_split_at(mid) ==
    LET r == split_at(View, mid) IN Out(r.kind, <<r.a, r.b>>, lists)

\* Slice.split_at_checked(mid)
view_split_at_checked(mid) ==
    LET r == split_at_checked(View, mid) IN Out(r.kind, <<r.a, r.b>>, lists)

\* Slice.split_once(pred)
view_split_once(pred) ==
    LET r == split_once(View, pred) IN Out(r.kind, <<r.a, r.b>>, lists)

\* list(it) for it a Chunks: next until StopIteration
RECURSIVE DrainChunks(_, _)
DrainChunks(v, chunk_size) ==
    LET n == chunks_next(v, chunk_size) IN
    IF n.stop THEN <<>> ELSE <<n.item>> \o DrainChunks(n.v, chunk_size)

\* list(it) for it a Windows
RECURSIVE DrainWindows(_, _)
DrainWindows(v, size) ==
    LET n == windows_next(v, size) IN
    IF n.stop THEN <<>> ELSE <<n.item>> \o DrainWindows(n.v, size)

\* list(it) for it a ChunksExact
RECURSIVE DrainChunksExact(_, _)
DrainChunksExact(v, chunk_size) ==
    LET n == chunks_exact_next(v, chunk_size) IN
    IF n.stop THEN <<>> ELSE <<n.item>> \o DrainChunksExact(n.v, chunk_size)

\* list(it) for it a ChunkBy
RECURSIVE DrainChunkBy(_, _)
DrainChunkBy(v, predicate) ==
    LET n == chunk_by_next(v, predicate) IN
    IF n.stop THEN <<>> ELSE <<n.item>> \o DrainChunkBy(n.v, predicate)

\* list(self.chunks(chunk_size))
view_chunks(chunk_size) ==
    IF chunk_size = 0 THEN Raise("ValueError")
    ELSE Out("List", DrainChunks(View, chunk_size), lists)

\* list(self.windows(size))
view_windows(size) ==
    IF size = 0 THEN Raise("ValueError")
    ELSE Out("List", DrainWindows(View, size), lists)

\* list(self.chunks_exact(chunk_size))
view_chunks_exact(chunk_size) ==
    IF chunk_size = 0 THEN Raise("ZeroDivisionError")
    ELSE Out("List",
             DrainChunksExact(chunks_exact_init(View, chunk_size).v,
                              chunk_size),
             lists)

\* list(self.chunk_by(predicate))
view_chunk_by(predicate) == Out("List", DrainChunkBy(View, predicate), lists)

Traverse(op, arg, r) ==
    /\ lists' = r.lists
    /\ ret' = Call(op, arg, r.kind, r.val)
    /\ UNCHANGED <<vec, ext, nonVec>>

ViewSplitAt ==
    \E mid \in 0..MaxArg : Traverse("split_at", <<mid>>, view_split_at(mid))

ViewSplitAtChecked ==
    \E mid \in 0..MaxArg :
        Traverse("split_at_checked", <<mid>>, view_split_at_checked(mid))

ViewSplitOnce ==
    \E pred \in Preds : Traverse("split_once", <<pred>>, view_split_once(pred))

ViewChunks ==
    \E chunk_size \in 0..MaxArg :
        Traverse("chunks", <<chunk_size>>, view_chunks(chunk_size))

ViewWindows ==
    \E size \in 0..MaxArg : Traverse("windows", <<size>>, view_windows(size))

ViewChunksExact ==
    \E chunk_size \in 0..MaxArg :
        Traverse("chunks_exact", <<chunk_size>>,
                 view_chunks_exact(chunk_size))

ViewChunkBy ==
    \E predicate \in Buckets :
        Traverse("chunk_by", <<predicate>>, view_chunk_by(predicate))

\* A view over the caller's list L.
InitRead ==
    /\ IdleBuf /\ IdleSlice
    /\ ret = NoCall
    /\ \E L \in SeqsUpTo(MaxLen) : lists = <<L, <<>> >>
    /\ vec = VecInit(1)
    /\ ext = 1

NextRead ==
    \/ VecSplitFirst \/ VecSplitLast
    \/ ViewSplitAt \/ ViewSplitAtChecked \/ ViewSplitOnce
    \/ ViewChunks \/ ViewWindows \/ ViewChunksExact \/ ViewChunkBy

SpecRead == InitRead /\ [][NextRead]_vars

\* --------------------------------------------------------- Bytes / BytesMut
MoveOps == {"to_mut", "freeze"}
ReadOps == {"len", "is_empty", "to_bytes", "getitem", "get", "first", "iter",
            "eq"}

\* The array an object's _buf holds; <<>> stands for the contents when the
\* attribute is deleted.
Deleted(o) == objs[o].buf = NoRef
Data(o) == IF Deleted(o) THEN <<>> ELSE arrs[objs[o].buf]

BCall(op, o, arg, kind, val, res) ==
    [op |-> op, obj |-> o, arg |-> arg, kind |-> kind, val |-> val,
     res |-> res, pre |-> Data(o), prebuf |-> objs[o].buf,
     prior |-> IF bret.op \in MoveOps /\ bret.kind = "Obj"
               THEN << [op |-> bret.op, res |-> bret.res, pre |-> bret.pre,
                        prebuf |-> bret.prebuf] >>
               ELSE <<>>]

from_static_copy(as, cls, arr) ==
    [arrs |-> Append(as, as[arr]), obj |-> [cls |-> cls, buf |-> Len(as) + 1]]

\* Bytes.from_static_unchecked(arr): `b = cls(); b._buf = arr`.  The empty
\* array made by cls() is dropped in the same step.
from_static_unchecked(as, cls, arr) ==
    [arrs |-> as, obj |-> [cls |-> cls, buf |-> arr]]

bytes_leak_keep(os, o) == os

\* Bytes.leak(): `arr = self._buf; del self._buf; return arr`
bytes_leak(os, o) == [os EXCEPT ![o].buf = NoRef]

\* A move of object o into a new object of class cls:
\* `cls.from_static_unchecked(self.leak())`.
Move(op, o, cls) ==
    IF Deleted(o)
    THEN /\ bret' = BCall(op, o, <<>>, "AttributeError", <<>>, 0)
         /\ UNCHANGED <<arrs, objs, moved, nonBuf>>
    ELSE LET n == from_static_unchecked(arrs, cls, objs[o].buf) IN
         /\ arrs' = n.arrs
         /\ objs' = Append(bytes_leak(objs, o), n.obj)
         /\ moved' = moved \cup {o}
         /\ bret' = BCall(op, o, <<>>, "Obj", n.arrs[n.obj.buf],
                          Len(objs) + 1)
         /\ UNCHANGED nonBuf

\* Bytes.to_mut(), inherited by BytesMut
ToMut ==
    \E o \in 1..Len(objs) :
        /\ Len(objs) < MaxObjs
        /\ Move("to_mut", o, "BytesMut")

\* BytesMut.freeze()
Freeze ==
    \E o \in 1..Len(objs) :
        /\ Len(objs) < MaxObjs
        /\ objs[o].cls = "BytesMut"
        /\ Move("freeze", o, "Bytes")

\* Bytes.leak() called by the user.
BytesLeak ==
    \E o \in 1..Len(objs) :
        IF Deleted(o)
        THEN /\ bret' = BCall("leak", o, <<>>, "AttributeError", <<>>, 0)
             /\ UNCHANGED <<arrs, objs, moved, nonBuf>>
        ELSE /\ objs' = bytes_leak(objs, o)
             /\ moved' = moved \cup {o}
             /\ bret' = BCall("leak", o, <<>>, "Array", Data(o), 0)
             /\ UNCHANGED <<arrs, nonBuf>>

from_bytes_copy(as, cls, o) ==
    [arrs |-> Append(as, <<>> \o Data(o)),
     obj |-> [cls |-> cls, buf |-> Len(as) + 1]]

\* Bytes.from_bytes(buf) with buf the Bytes or BytesMut o: a non-empty buf
\* is pointed to; for an empty one `b = cls(); b._buf.extend(buf)` makes a
\* new array.
from_bytes(as, cls, o) ==
    IF Data(o) # <<>> THEN from_static_unchecked(as, cls, objs[o].buf)
    ELSE [arrs |-> Append(as, <<>> \o Data(o)),
          obj |-> [cls |-> cls, buf |-> Len(as) + 1]]

FromBytes ==
    \E o \in 1..Len(objs), cls \in {"Bytes", "BytesMut"} :
        /\ Len(objs) < MaxObjs - 1
        /\ IF Deleted(o)
           THEN /\ bret' = BCall("from_bytes", o, <<>>, "AttributeError",
                                 <<>>, 0)
                /\ UNCHANGED <<arrs, objs, moved, nonBuf>>
           ELSE LET n == from_bytes(arrs, cls, o) IN
                /\ arrs' = n.arrs
                /\ objs' = Append(objs, n.obj)
                /\ bret' = BCall("from_bytes", o, <<>>, "Obj",
                                 n.arrs[n.obj.buf], Len(objs) + 1)
                /\ UNCHANGED <<moved, nonBuf>>

\* BytesMut.put(src)
Put ==
    \E o \in 1..Len(objs), src \in Val :
        /\ objs[o].cls = "BytesMut"
        /\ Len(Data(o)) < MaxBuf
        /\ IF Deleted(o)
           THEN /\ bret' = BCall("put", o, <<src>>, "AttributeError", <<>>, 0)
                /\ UNCHANGED <<arrs, objs, moved, nonBuf>>
           ELSE /\ arrs' = [arrs EXCEPT ![objs[o].buf] = Append(@, src)]
                /\ bret' = BCall("put", o, <<src>>, "None", <<>>, 0)
                /\ UNCHANGED <<objs, moved, nonBuf>>

\* BytesMut.pop(i): NOTHING on an empty buffer, else `self._buf.pop(i)`
BytesPop ==
    \E o \in 1..Len(objs), i \in {0 - 1, 0, MaxArg} :
        /\ objs[o].cls = "BytesMut"
        /\ IF Deleted(o)
           THEN /\ bret' = BCall("pop", o, <<i>>, "AttributeError", <<>>, 0)
                /\ UNCHANGED <<arrs, objs, moved, nonBuf>>
           ELSE IF Data(o) = <<>>
           THEN /\ bret' = BCall("pop", o, <<i>>, "Nothing", <<>>, 0)
                /\ UNCHANGED <<arrs, objs, moved, nonBuf>>
           ELSE LET p == PyIndex(Data(o), i) IN
                IF p = 0
                THEN /\ bret' = BCall("pop", o, <<i>>, "IndexError", <<>>, 0)
                     /\ UNCHANGED <<arrs, objs, moved, nonBuf>>
                ELSE /\ arrs' = [arrs EXCEPT ![objs[o].buf] = RemoveAt(@, p)]
                     /\ bret' = BCall("pop", o, <<i>>, "Some", <<Data(o)[p]>>,
                                      0)
                     /\ UNCHANGED <<objs, moved, nonBuf>>

\* The result of a read: its kind and value.
Res(kind, val) == [kind |-> kind, val |-> val]
NoAttr == Res("AttributeError", <<>>)

\* Slice.len on a Bytes
bytes_len(o) == IF Deleted(o) THEN NoAttr ELSE Res("Int", <<Len(Data(o))>>)

\* Slice.is_empty on a Bytes
bytes_is_empty(o) ==
    IF Deleted(o) THEN NoAttr ELSE Res("Bool", Bool(Data(o) = <<>>))

\* Bytes.to_bytes
to_bytes(o) ==
    IF Deleted(o) THEN NoAttr
    ELSE IF Data(o) = <<>> THEN Res("Bytes", <<>>)
    ELSE Res("Bytes", Data(o))

\* Slice.__getitem__ / BytesMut.__getitem__ with an integer index
bytes_getitem(o, index) ==
    IF Deleted(o) THEN NoAttr
    ELSE LET p == PyIndex(Data(o), index) IN
         IF p = 0 THEN Res("IndexError", <<>>) ELSE Res("Item", <<Data(o)[p]>>)

\* Slice.get on a Bytes
bytes_get(o, index) ==
    LET r == bytes_getitem(o, index) IN
    IF r.kind = "Item" THEN Res("Some", r.val)
    ELSE IF r.kind = "IndexError" THEN Res("Nothing", <<>>)
    ELSE r

\* Slice.first on a Bytes: `Some(self[0]) if self else Some(None)`
bytes_first(o) ==
    IF Deleted(o) THEN NoAttr
    ELSE IF Data(o) # <<>> THEN Res("Some", <<Data(o)[1]>>)
    ELSE Res("Nothing", <<>>)

\* Bytes.__iter__
bytes_iter(o) == IF Deleted(o) THEN NoAttr ELSE Res("List", Data(o))

\* Bytes.__eq__(other) with other a list of ints: an empty buffer answers
\* False before looking at other.
bytes_eq(o, other) ==
    IF Deleted(o) THEN NoAttr
    ELSE IF Data(o) = <<>> THEN Res("Bool", Bool(FALSE))
    ELSE Res("Bool", Bool(Data(o) = other))

Read(op, o, arg, r) ==
    /\ bret' = BCall(op, o, arg, r.kind, r.val, 0)
    /\ UNCHANGED <<arrs, objs, moved, nonBuf>>

BytesLen == \E o \in 1..Len(objs) : Read("len", o, <<>>, bytes_len(o))

BytesIsEmpty ==
    \E o \in 1..Len(objs) : Read("is_empty", o, <<>>, bytes_is_empty(o))

BytesToBytes ==
    \E o \in 1..Len(objs) : Read("to_bytes", o, <<>>, to_bytes(o))

BytesGetItem ==
    \E o \in 1..Len(objs), index \in {0 - 1, 0, MaxArg} :
        Read("getitem", o, <<index>>, bytes_getitem(o, index))

BytesGet ==
    \E o \in 1..Len(objs), index \in {0, MaxArg} :
        Read("get", o, <<index>>, bytes_get(o, index))

BytesFirst == \E o \in 1..Len(objs) : Read("first", o, <<>>, bytes_first(o))

BytesIter == \E o \in 1..Len(objs) : Read("iter", o, <<>>, bytes_iter(o))

BytesEq ==
    \E o \in 1..Len(objs) :
        \E other \in {Data(o), <<>>} :
            Read("eq", o, other, bytes_eq(o, other))

\* Bytes.__eq__(other) with other the Bytes or BytesMut c, a Sequence that
\* is not bytes: `self._buf.tolist() == other`; list.__eq__ does not know
\* the type, so Python asks the reflected c.__eq__(list).
bytes_eq_bytes(o, c) ==
    IF Deleted(o) THEN NoAttr
    ELSE IF Data(o) = <<>> THEN Res("Bool", Bool(FALSE))
    ELSE bytes_eq(c, Data(o))

\* Bytes.__ne__(other): `not self.__eq__(other)`
bytes_ne_bytes(o, c) ==
    LET r == bytes_eq_bytes(o, c) IN
    IF r.kind = "Bool" THEN Res("Bool", Bool(r.val = Bool(FALSE))) ELSE r

BytesEqBytes ==
    \E o \in 1..Len(objs), c \in 1..Len(objs) :
        Read("eq_bytes", o, <<c>>, bytes_eq_bytes(o, c))

BytesNeBytes ==
    \E o \in 1..Len(objs), c \in 1..Len(objs) :
        Read("ne_bytes", o, <<c>>, bytes_ne_bytes(o, c))

\* Bytes.from_bytes / BytesMut.from_bytes of a bytes literal: a new array.
InitBuf ==
    /\ IdleVec /\ IdleSlice
    /\ \E data \in SeqsUpTo(MaxBuf) : arrs = <<data>>
    /\ \E cls \in {"Bytes", "BytesMut"} : objs = <<[cls |-> cls, buf |-> 1]>>
    /\ moved = {}
    /\ bret = NoBCall

NextBuf ==
    \/ ToMut \/ Freeze \/ BytesLeak \/ Put
    \/ BytesLen \/ BytesIsEmpty \/ BytesToBytes \/ BytesGetItem \/ BytesGet
    \/ BytesFirst \/ BytesIter \/ BytesEq

SpecBuf == InitBuf /\ [][NextBuf]_vars

\* A buffer made from a bytes literal, and the buffers made from it.
InitShare ==
    /\ IdleVec /\ IdleSlice
    /\ \E data \in SeqsUpTo(MaxBuf) : arrs = <<data>>
    /\ \E cls \in {"Bytes", "BytesMut"} : objs = <<[cls |-> cls, buf |-> 1]>>
    /\ moved = {}
    /\ bret = NoBCall

NextShare == FromBytes \/ Put

SpecShare == InitShare /\ [][NextShare]_vars

\* Buffers made by from_bytes, written to and compared with each other.
InitEq == InitShare

NextEq == FromBytes \/ Put \/ BytesEqBytes \/ BytesNeBytes

SpecEq == InitEq /\ [][NextEq]_vars

\* A view (a Vec over a list it owns) and a BytesMut side by side, one of
\* them built empty, with the calls that answer with an absent value.
InitAbsent ==
    /\ IdleSlice
    /\ \/ /\ \E L \in SeqsUpTo(MaxLen) : lists = <<L, <<>> >>
          /\ arrs = << <<>> >>
       \/ /\ lists = << <<>>, <<>> >>
          /\ \E data \in SeqsUpTo(MaxBuf) : arrs = <<data>>
    /\ vec = VecInit(1)
    /\ ext = NoRef
    /\ ret = NoCall
    /\ objs = <<[cls |-> "BytesMut", buf |-> 1]>>
    /\ moved = {}
    /\ bret = NoBCall

NextAbsent ==
    \/ VecGet \/ VecFirst \/ VecLast \/ VecSplitFirst \/ VecSplitLast \/ Pop
    \/ BytesGet \/ BytesFirst \/ BytesPop

SpecAbsent == InitAbsent /\ [][NextAbsent]_vars

\* ---------------------------------------------------------------- claims
Full(v, contents) == HasCap(v) /\ Len(contents) = Cap(v)

\* C1: for a Vec created by with_capacity(n) and used through
\* push_within_capacity only, the length never exceeds n; a call made at
\* length n returns Err with exactly the item passed in and leaves the
\* contents as they were; a call made below n returns Ok and appends the item
\* at the end.
C1_PushWithinCapacity ==
    /\ Len(View) <= Cap(vec)
    /\ ret.op = "push_within_capacity" =>
          IF Len(ret.pre) = Cap(vec)
          THEN ret.kind = "Err" /\ ret.val = ret.arg /\ View = ret.pre
          ELSE ret.kind = "Ok" /\ View = ret.pre \o ret.arg

C1_Witness ==
    /\ ret.op = "push_within_capacity" /\ ret.kind = "Err"
    /\ Cap(vec) >= 2 /\ Len(View) = Cap(vec)

\* C2: a Vec with a capacity ceiling never holds more elements than the
\* ceiling.
C2_LengthWithinCapacity == HasCap(vec) => Len(View) <= Cap(vec)

C4_MovedFromReadsFail ==
    (bret.op \in ReadOps /\ bret.obj \in moved) =>
        (bret.kind = "AttributeError" /\ bret.val = <<>>)

C4_Witness ==
    /\ bret.op = "to_bytes" /\ bret.obj \in moved
    /\ bret.kind = "AttributeError"
    /\ \E p \in 1..Len(objs) :
          objs[p].cls = "BytesMut" /\ ~Deleted(p) /\ Data(p) # <<>>

\* C5: the buffer returned by to_mut / freeze holds the very array the source
\* held, with the contents it had when the call was made; to_mut right after
\* freeze (and freeze right after to_mut) gives back the array and the bytes
\* the first call started from.
C5_ZeroCopyMove ==
    (bret.op \in MoveOps /\ bret.kind = "Obj") =>
        /\ objs[bret.res].buf = bret.prebuf
        /\ Data(bret.res) = bret.pre
        /\ bret.val = bret.pre
        /\ (/\ bret.prior # <<>>
            /\ bret.prior[1].op # bret.op
            /\ bret.prior[1].res = bret.obj)
           => /\ objs[bret.res].buf = bret.prior[1].prebuf
              /\ Data(bret.res) = bret.prior[1].pre

C5_Witness ==
    /\ bret.op = "to_mut" /\ bret.kind = "Obj"
    /\ bret.prior # <<>>
    /\ bret.prior[1].op = "freeze"
    /\ bret.prior[1].res = bret.obj
    /\ Len(bret.pre) >= 2

\* C6: once leak() has handed out the list, every later call on the Vec
\* fails, so none reads or changes that list.
C6_LeakTerminal ==
    (vec.ptr = NoRef /\ ret.op \notin {"leak", "list.append", "list.pop"})
        => ret.kind = "AttributeError"

\* C7: the Vec and the list the caller holds are one storage: whatever was
\* done through either, the Vec shows the list's length and elements, and
\* the Vec's writes go to that list.
C7_AliasVisible ==
    ext # NoRef =>
        /\ Len(View) = Len(lists[ext])
        /\ View = lists[ext]
        /\ vec.ptr # NoRef => lists[vec.ptr] = lists[ext]

C7_Witness ==
    /\ ext # NoRef /\ vec.ptr # NoRef
    /\ ret.op = "list.append" /\ Len(View) = Len(ret.pre) + 1

RECURSIVE Flatten(_)
Flatten(ss) == IF ss = <<>> THEN <<>> ELSE Head(ss) \o Flatten(Tail(ss))

\* C8: split_at(mid) with mid <= len returns the elements before mid and the
\* elements from mid on, which together are the view; with mid > len it
\* raises IndexError.
C8_SplitAt ==
    sret.op = "split_at" =>
        IF sret.arg <= Len(sv)
        THEN /\ sret.kind = "Pair"
             /\ sret.a = SubSeq(sv, 1, sret.arg)
             /\ sret.b = SubSeq(sv, sret.arg + 1, Len(sv))
             /\ sret.a \o sret.b = sv
        ELSE sret.kind = "IndexError"

C8_Witness ==
    /\ sret.op = "split_at" /\ sret.kind = "Pair"
    /\ sret.arg = Len(sv) /\ Len(sv) >= 2

\* C9: split_at_checked(mid) never raises; the two halves together are the
\* view, and for mid > len the left half is the whole view and the right
\* half is empty.
C9_SplitAtCheckedTotal ==
    sret.op = "split_at_checked" =>
        /\ sret.kind = "Pair"
        /\ Len(sret.a) + Len(sret.b) = Len(sv)
        /\ sret.a \o sret.b = sv
        /\ sret.arg > Len(sv) => (sret.a = sv /\ sret.b = <<>>)

C9_Witness ==
    /\ sret.op = "split_at_checked" /\ sret.arg > Len(sv) /\ Len(sv) >= 1
    /\ sret.kind = "Pair"

\* C10: when the iteration of chunk_by over a non-empty view has ended, the
\* groups yielded make up the whole view; the predicate holds between
\* neighbours inside a group and fails between one group and the next.
C10_ChunkByCovers ==
    (iter.kind = "chunk_by" /\ iter.done /\ sv # <<>>) =>
        /\ Flatten(yielded) = sv
        /\ \A g \in 1..Len(yielded) :
              /\ yielded[g] # <<>>
              /\ \A i \in 1..(Len(yielded[g]) - 1) :
                    Bucket(iter.pred, yielded[g][i], yielded[g][i + 1])
        /\ \A g \in 1..(Len(yielded) - 1) :
              ~Bucket(iter.pred, yielded[g][Len(yielded[g])],
                      yielded[g + 1][1])

\* C11: chunks(k) with k >= 1 yields ceil(n/k) chunks, the j-th being
\* v[(j-1)k : jk] (so all of length k except possibly the last), and the
\* chunks concatenated give back the view; chunks(0) raises ValueError when
\* it is called.
C11_Chunks ==
    /\ (sret.op = "chunks" /\ sret.arg = 0) => sret.kind = "ValueError"
    /\ (sret.op = "chunks" /\ sret.arg >= 1) => sret.kind = "Iter"
    /\ iter.kind = "chunks" =>
         LET n == Len(sv)
             k == iter.size
             total == (n + k - 1) \div k
         IN /\ k >= 1
            /\ Flatten(yielded) \o iter.v = sv
            /\ Len(yielded) <= total
            /\ \A j \in 1..Len(yielded) :
                  /\ yielded[j] = PySlice(sv, (j - 1) * k, j * k)
                  /\ Len(yielded[j]) = k \/ j = total
            /\ iter.done => (Len(yielded) = total /\ Flatten(yielded) = sv)

C11_Witness ==
    /\ iter.kind = "chunks" /\ iter.done
    /\ Len(yielded) = 2
    /\ Len(yielded[2]) < iter.size

\* C12: windows(k) with k >= 1 yields max(0, n-k+1) windows, the i-th (from
\* 0) being v[i : i+k]; windows(0) raises ValueError when it is called.
C12_Windows ==
    /\ (sret.op = "windows" /\ sret.arg = 0) => sret.kind = "ValueError"
    /\ (sret.op = "windows" /\ sret.arg >= 1) => sret.kind = "Iter"
    /\ iter.kind = "windows" =>
         LET n == Len(sv)
             k == iter.size
             total == Max(0, n - k + 1)
         IN /\ k >= 1
            /\ Len(yielded) <= total
            /\ \A j \in 1..Len(yielded) :
                  /\ yielded[j] = PySlice(sv, j - 1, j - 1 + k)
                  /\ Len(yielded[j]) = k
            /\ iter.done => Len(yielded) = total

C12_Witness ==
    /\ iter.kind = "windows" /\ iter.done
    /\ iter.size = 2
    /\ Len(yielded) = 2
    /\ yielded[1][2] = yielded[2][1]

\* C13: chunks_exact(size) with size >= 1 yields floor(n/size) chunks, the
\* j-th being v[(j-1)size : j size], each of length size; remainder() is
\* v[n - n mod size : n] throughout, and the chunks followed by the
\* remainder give back the view.
C13_ChunksExact ==
    iter.kind = "chunks_exact" =>
        LET n == Len(sv)
            k == iter.size
            tail == PySlice(sv, n - (n % k), n)
        IN /\ iter.rem = tail
           /\ sret.op = "remainder" => sret.a = tail
           /\ Len(yielded) <= n \div k
           /\ \A j \in 1..Len(yielded) :
                 /\ yielded[j] = PySlice(sv, (j - 1) * k, j * k)
                 /\ Len(yielded[j]) = k
           /\ Flatten(yielded) \o iter.v \o iter.rem = sv
           /\ iter.done => /\ Len(yielded) = n \div k
                           /\ Flatten(yielded) \o iter.rem = sv

C13_Witness ==
    /\ iter.kind = "chunks_exact" /\ iter.done
    /\ sret.op = "remainder"
    /\ Len(yielded) >= 1
    /\ sret.a # <<>>

\* C14: fill_with(factory) on a view of length n >= 1 calls the factory n
\* times and slot i receives the value of the i-th call; the length is
\* unchanged.
C14_FillWithPerSlot ==
    (ret.op = "fill_with" /\ ret.pre # <<>>) =>
        /\ ret.kind = "None"
        /\ ret.val = <<Len(ret.pre)>>
        /\ Len(View) = Len(ret.pre)
        /\ \A i \in 1..Len(View) : View[i] = ret.arg[i]

\* C15: split_at_mut_checked(mid) returns the halves [0, min(mid, len)) and
\* [min(mid, len), len) for every mid >= 0, as split_at_checked does; for
\* mid > len the left half holds all elements and the right half is empty.
C15_SplitAtMutCheckedTotal ==
    ret.op = "split_at_mut_checked" =>
        LET sp == split_at_checked(ret.pre, ret.arg[1]) IN
        /\ ret.kind = "Some"
        /\ ret.val = <<sp.a, sp.b>>

\* C16: copy_from_slice(src) and clone_from_slice(src) raise IndexError and
\* leave the destination as it was when the lengths differ; with equal
\* lengths the destination ends up equal to src elementwise, with its length
\* unchanged, and src is unchanged.
C16_CopyFromSlice ==
    ret.op \in {"copy_from_slice", "clone_from_slice"} =>
        /\ lists[2] = ret.arg
        /\ Len(View) = Len(ret.pre)
        /\ Len(ret.arg) # Len(ret.pre) =>
              (ret.kind = "IndexError" /\ View = ret.pre)
        /\ Len(ret.arg) = Len(ret.pre) =>
              (ret.kind = "None" /\ \A i \in 1..Len(View) : View[i] = ret.arg[i])

C16_Witness ==
    /\ ret.op = "copy_from_slice" /\ ret.kind = "None"
    /\ Len(ret.pre) >= 2
    /\ ret.pre # ret.arg
    /\ View = ret.arg

\* C17 (as stated): split_off(at) with 0 <= at <= len, on every Vec, the
\* empty one included, returns a new Vec with storage of its own holding the
\* old [at, len) and leaves self holding the old [0, at); for at > len it
\* raises IndexError and leaves self unchanged.
C17_SplitOffNewVec ==
    ret.op = "split_off" =>
        LET at == ret.arg[1]
            n == Len(ret.pre)
        IN /\ at > n => (ret.kind = "IndexError" /\ View = ret.pre)
           /\ at <= n => /\ ret.kind = "Vec"
                         /\ ext # vec.ptr
                         /\ lists[ext] = PySlice(ret.pre, at, n)
                         /\ View = PySlice(ret.pre, 0, at)

\* C17 (amended): as above for a non-empty Vec, and then a later change of
\* the returned Vec leaves self as it is and a later change of self leaves
\* the returned Vec as it is; split_off(0) on an empty Vec returns self
\* itself, so the result shares the storage of self.
C17_SplitOffOwned ==
    /\ [](ret.op = "split_off" =>
            LET at == ret.arg[1]
                n == Len(ret.pre)
            IN /\ at > n => (ret.kind = "IndexError" /\ View = ret.pre)
               /\ (at <= n /\ n > 0) =>
                     /\ ret.kind = "Vec"
                     /\ ext # vec.ptr
                     /\ ret.val = PySlice(ret.pre, at, n)
                     /\ lists[ext] = ret.val
                     /\ View = PySlice(ret.pre, 0, at)
               /\ n = 0 /\ at = 0 =>
                     (ret.kind = "Self" /\ ext = vec.ptr /\ View = <<>>))
    /\ [][(ext # NoRef /\ ext # vec.ptr /\ ext' = ext) =>
             /\ ret'.op \in {"list.append", "list.pop"} => View' = View
             /\ ret'.op \in {"push", "pop"} => lists'[ext] = lists[ext]]_vars

C17_Witness ==
    /\ ret.op = "list.append"
    /\ ext = 2
    /\ View # <<>>
    /\ Len(lists[ext]) >= 2

\* C18: split_once(pred) returns present (v[0:i], v[i+1:len]) for the
\* smallest index i whose element satisfies pred, the separator being in
\* neither half, and absent when no element satisfies pred.
C18_SplitOnce ==
    sret.op = "split_once" =>
        LET hits == {i \in 1..Len(sv) : sv[i] \in sret.arg} IN
        /\ hits = {} => sret.kind = "Nothing"
        /\ hits # {} =>
              \E i \in hits :
                  /\ \A j \in hits : i <= j
                  /\ sret.kind = "Some"
                  /\ sret.a = SubSeq(sv, 1, i - 1)
                  /\ sret.b = SubSeq(sv, i + 1, Len(sv))

C18_Witness ==
    /\ sret.op = "split_once" /\ sret.kind = "Some"
    /\ sret.a = <<>>
    /\ Len(sret.b) >= 2

\* The elements of rest that dedup_by is to keep, after those already kept.
RECURSIVE KeepRuns(_, _, _)
KeepRuns(rest, kept, same_bucket) ==
    IF rest = <<>> THEN kept
    ELSE IF kept # <<>> /\ Bucket(same_bucket, Head(rest), kept[Len(kept)])
    THEN KeepRuns(Tail(rest), kept, same_bucket)
    ELSE KeepRuns(Tail(rest), Append(kept, Head(rest)), same_bucket)

\* C19: dedup_by(same_bucket) keeps, in order, the first element and every
\* later element e for which same_bucket(e, last kept element) is false, and
\* does so in place: the list the Vec was built on shows the result.
C19_DedupBy ==
    (ret.op = "dedup_by" /\ ret.kind = "None") =>
        /\ View = KeepRuns(ret.pre, <<>>, ret.arg[1])
        /\ ext # NoRef => lists[ext] = View

C19_Witness ==
    /\ ret.op = "dedup_by" /\ ret.kind = "None"
    /\ ret.arg = <<"eq">>
    /\ Len(ret.pre) = 3
    /\ Len(View) = 2
    /\ ext # NoRef

\* C20: get(i) answers absent for every i >= len and present with the
\* element at i for 0 <= i < len; first, last, split_first and split_last on
\* an empty view, and pop on an empty Vec or BytesMut, answer absent; none of
\* them raises and the container is left as it was.
C20_AbsentNotError ==
    /\ ret.op = "get" =>
          LET i == ret.arg[1] IN
          /\ View = ret.pre
          /\ i >= Len(ret.pre) => (ret.kind = "Nothing" /\ ret.val = <<>>)
          /\ i < Len(ret.pre) =>
                (ret.kind = "Some" /\ ret.val = <<ret.pre[i + 1]>>)
    /\ (/\ ret.op \in {"first", "last", "split_first", "split_last", "pop"}
        /\ ret.pre = <<>>)
       => (ret.kind = "Nothing" /\ View = <<>>)
    /\ bret.op = "get" =>
          LET i == bret.arg[1] IN
          /\ Data(bret.obj) = bret.pre
          /\ i >= Len(bret.pre) => bret.kind = "Nothing"
          /\ i < Len(bret.pre) =>
                (bret.kind = "Some" /\ bret.val = <<bret.pre[i + 1]>>)
    /\ (bret.op \in {"first", "pop"} /\ bret.pre = <<>>)
       => (bret.kind = "Nothing" /\ Data(bret.obj) = <<>>)

C20_Witness ==
    /\ ret.op = "get" /\ ret.kind = "Nothing"
    /\ ret.arg[1] = Len(ret.pre)
    /\ ret.pre # <<>>
    /\ bret.op = "pop" /\ bret.kind = "Nothing"

\* C21: split_off_first() / split_off_last() on a mutable view minted by
\* as_mut_slice(): on a non-empty view it returns the former first / last
\* element and the storage loses exactly that element, which the owning Vec
\* sees; on an empty view it returns absent and the storage is unchanged.
C21_SplitOffEnds ==
    ret.op \in {"split_off_first", "split_off_last"} =>
        LET n == Len(ret.pre) IN
        /\ lists[ext] = View
        /\ n = 0 => (ret.kind = "Nothing" /\ View = <<>>)
        /\ (n > 0 /\ ret.op = "split_off_first") =>
              /\ ret.kind = "Some" /\ ret.val = <<ret.pre[1]>>
              /\ View = SubSeq(ret.pre, 2, n)
        /\ (n > 0 /\ ret.op = "split_off_last") =>
              /\ ret.kind = "Some" /\ ret.val = <<ret.pre[n]>>
              /\ View = SubSeq(ret.pre, 1, n - 1)

C21_Witness ==
    /\ ret.op = "split_off_first" /\ ret.kind = "Some"
    /\ Len(ret.pre) = 3
    /\ Len(View) = 2

TraversalOps ==
    {"split_first", "split_last", "split_at", "split_at_checked",
     "split_once", "chunks", "chunks_exact", "chunk_by", "windows"}

\* C22: split_first, split_last, split_at, split_at_checked, split_once and
\* the full iteration of chunks, chunks_exact, chunk_by and windows leave
\* the backing list as it was: same length, same elements, same order.
C22_TraversalsReadOnly ==
    ret.op \in TraversalOps =>
        (View = ret.pre /\ lists[ext] = ret.pre)

C22_Witness ==
    /\ ret.op = "chunks" /\ ret.kind = "List"
    /\ Len(ret.val) = 2
    /\ Len(ret.pre) = 3
    /\ lists[ext] = ret.pre

\* C23: Vec.insert(index, value) with 0 <= index <= len makes the Vec one
\* longer, puts value at index, and moves the elements formerly at positions
\* >= index one place to the right; no element is lost.
C23_InsertShifts ==
    (ret.op = "insert" /\ ret.arg[1] <= Len(ret.pre)) =>
        LET i == ret.arg[1]
            n == Len(ret.pre)
        IN /\ ret.kind = "None"
           /\ View = SubSeq(ret.pre, 1, i) \o <<ret.arg[2]>>
                        \o SubSeq(ret.pre, i + 1, n)

C25_ShrinkOnlyLowers ==
    [][ret'.op \in {"shrink_to_fit", "shrink_to"} =>
         IF ~HasCap(vec) THEN vec' = vec /\ lists' = lists
         ELSE /\ HasCap(vec')
              /\ Cap(vec') <= Cap(vec)
              /\ Cap(vec') >= Len(View)
              /\ (ret'.op = "shrink_to" /\ Cap(vec) >= ret'.arg[1]) =>
                     Cap(vec') >= ret'.arg[1]]_vars

\* The same, for calls made while the length is within the ceiling.
C25_ShrinkWithinCapacity ==
    [][(ret'.op \in {"shrink_to_fit", "shrink_to"}
            /\ C2_LengthWithinCapacity) =>
         IF ~HasCap(vec) THEN vec' = vec /\ lists' = lists
         ELSE /\ HasCap(vec')
              /\ Cap(vec') <= Cap(vec)
              /\ Cap(vec') >= Len(View)
              /\ (ret'.op = "shrink_to" /\ Cap(vec) >= ret'.arg[1]) =>
                     Cap(vec') >= ret'.arg[1]]_vars

\* C26: reserve(k) on a bounded Vec raises the ceiling by exactly k and
\* leaves length and contents alone, and on an unbounded Vec leaves it
\* unbounded; push_within_capacity succeeds, adding one element, exactly
\* while the length is below the ceiling, so after reserve(k) on a full Vec
\* the room is k: the next k calls succeed and the one after is rejected.
C26_ReserveRaisesByK ==
    /\ [](HasCap(vec) => Len(View) <= Cap(vec))
    /\ [][ret'.op = "reserve" =>
            /\ lists' = lists
            /\ IF HasCap(vec)
               THEN HasCap(vec') /\ Cap(vec') = Cap(vec) + ret'.arg[1]
               ELSE ~HasCap(vec')]_vars
    /\ [][ret'.op = "push_within_capacity" =>
            /\ vec' = vec
            /\ IF HasCap(vec) /\ Cap(vec) - Len(View) = 0
               THEN ret'.kind = "Err" /\ lists' = lists
               ELSE ret'.kind = "Ok" /\ Len(View') = Len(View) + 1]_vars

C26_Witness ==
    /\ ret.op = "reserve" /\ ret.arg = <<2>>
    /\ HasCap(vec)
    /\ Len(View) >= 1
    /\ Cap(vec) = Len(View) + 2

\* C27: for the Chars iterator over a buffer of n bytes, after k successful
\* calls to next (0 <= k <= n) as_slice() is the last n - k bytes of the
\* data, the empty slice once all n bytes have been consumed.
C27_CharsAsSlice ==
    (iter.kind = "chars" /\ ~iter.done /\ sret.op = "as_slice") =>
        sret.a = SubSeq(sv, Len(yielded) + 1, Len(sv))

\* The same before the last byte has been consumed (k < n), and for the
\* empty buffer.
C27_CharsAsSliceUnfinished ==
    (iter.kind = "chars" /\ ~iter.done /\ sret.op = "as_slice"
        /\ (Len(yielded) < Len(sv) \/ sv = <<>>)) =>
        sret.a = SubSeq(sv, Len(yielded) + 1, Len(sv))

\* The items the current iterator still yields, and whether its next call
\* ends the iteration.
Remaining ==
    CASE iter.kind = "chunks" -> DrainChunks(iter.v, iter.size)
      [] iter.kind = "chunk_by" -> DrainChunkBy(iter.v, iter.pred)
      [] iter.kind = "chunks_exact" -> DrainChunksExact(iter.v, iter.size)
      [] iter.kind = "windows" -> DrainWindows(iter.v, iter.size)

\* C28: at every point of an iteration, len() of a chunks, chunks_exact,
\* windows or chunk_by iterator is the number of items it still yields, is
\* not negative, and is 0 exactly when the next request ends the iteration.
C28_LenIsRemaining ==
    sret.op = "len" =>
        /\ sret.arg = Len(Remaining)
        /\ sret.arg >= 0
        /\ sret.arg = 0 <=> Remaining = <<>>

\* The same for the chunks, chunks_exact and windows iterators alone.
C28_LenIsRemainingSized ==
    (sret.op = "len" /\ iter.kind # "chunk_by") =>
        /\ sret.arg = Len(Remaining)
        /\ sret.arg >= 0
        /\ sret.arg = 0 <=> Remaining = <<>>

\* C29: for every view and every non-zero size, negative ones included,
\* iterating chunks(size) or windows(size) ends after finitely many items;
\* so no call of next that yields an item leaves the iterator in the state
\* it was in, from which every later call would yield again without end.
C29_IterationEnds ==
    [][(sret'.op = "next" /\ sret'.kind = "Item") => iter'.v # iter.v]_vars

\* The same for sizes >= 1, where every yielded item shortens what is left.
C29_PositiveSizeEnds ==
    [][(sret'.op = "next" /\ sret'.kind = "Item" /\ iter.size >= 1) =>
          Len(iter'.v) < Len(iter.v)]_vars

\* C30: equality of buffers depends only on content: for buffers b and c
\* that have not been moved from and hold the same bytes (b itself and the
\* empty buffer included), b == c is True and b != c is False.
C30_EqualByContent ==
    (bret.op \in {"eq_bytes", "ne_bytes"} /\ bret.kind = "Bool"
        /\ Data(bret.obj) = Data(bret.arg[1])) =>
        bret.val = Bool(bret.op = "eq_bytes")

\* The same for non-empty buffers, together with the converse: buffers
\* holding different bytes compare unequal.
C30_EqualByContentNonEmpty ==
    (bret.op \in {"eq_bytes", "ne_bytes"} /\ bret.kind = "Bool"
        /\ Data(bret.obj) # <<>>) =>
        bret.val = Bool((bret.op = "eq_bytes")
                            <=> (Data(bret.obj) = Data(bret.arg[1])))

====
